---- MODULE Spec2Model ----
(***************************************************************************)
(* The Wheel Decides backend: the entry ledger (User.totalEntries), the    *)
(* purchase codes, the store, and the spin engine of routes/wheel.js,      *)
(* routes/store.js, routes/purchaseCode.js and routes/admin.js.            *)
(*                                                                         *)
(* Every request is a process.  A handler is split at its awaits: one      *)
(* action per storage round trip, together with the synchronous code that  *)
(* follows it up to the next await.  pc[p] names the storage operation     *)
(* process p is about to issue.  Any storage operation inside a handler's  *)
(* try block may throw; the catch block answers with an error and undoes   *)
(* nothing.                                                                *)
(***************************************************************************)
EXTENDS Integers, Sequences, FiniteSets, TLC

\* ------------------------------------------------------------------ bounds
\* Largest totalEntries an operator sends to PATCH /admin/users/:userId/entries.
MaxSetEntries == 2
\* The values the operator sends: none, or the largest.
EntryChoices == {0, MaxSetEntries}
\* Largest quantity of one item in a purchase request.
MaxQuantity == 2
\* Largest number of items in one purchase request.
MaxItems == 2
\* Largest totalEntries of an account when a draw or a reset begins.
MaxWeight == 3
\* Largest magnitude of the entriesPerItem an operator sends to PUT /store/admin/items/:itemId.
MaxEntriesPerItem == 3
\* The values the operator sends: the largest, and its negative.
EntriesPerItemChoices == {0 - MaxEntriesPerItem, MaxEntriesPerItem}

\* ------------------------------------------------------- program constants
\* purchaseCode.entriesAwarded || 10
DefaultEntriesAwarded == 10
\* totalEntries: { type: Number, default: 1 }
RegistrationEntries == 1

\* -------------------------------------------------------------- identities
\* The accounts, in insertion order (the order User.find returns them).
AllUsers == <<"admin", "u1", "u2">>
UserIds == {AllUsers[i] : i \in 1..Len(AllUsers)}
CodeIds == {"c1", "c2"}
ItemIds == {"shirt", "cap"}

\* The requests in flight, one process each.
SpinProcs == {"s1", "s2"}
DeclareProcs == {"d1"}
ResetProcs == {"r1", "r2"}
VerifyProcs == {"v1", "v2"}
PurchaseProcs == {"p1", "p2"}
TickProcs == {"t1", "t2"}
GetSettingsProcs == {"g1", "g2"}
UpdateSettingsProcs == {"a1", "a2"}
SpinReqs == SpinProcs \cup DeclareProcs
Procs == SpinProcs \cup DeclareProcs \cup ResetProcs \cup VerifyProcs \cup PurchaseProcs
            \cup TickProcs \cup GetSettingsProcs \cup UpdateSettingsProcs
Emitters == SpinProcs \cup TickProcs
\* The creators of WheelEntry documents: a signup creates one 'registration'
\* document for its account, a redemption or a purchase 'shirt_purchase' ones.
Registrations == {"u1", "u2"}
GrantProcs == VerifyProcs \cup PurchaseProcs

None == "none"
\* The absent document of each collection, and a request without locals.
NoSpin == [status |-> None]
NoWinner == [userId |-> None]
NoPurchase == [userId |-> None]
NoLocals == [found |-> <<>>]
Participant == {"u1", "u2"}

VARIABLES
    users,      \* the User collection: id -> document
    codes,      \* the PurchaseCode collection: id -> document
    store,      \* the Store collection: id -> document
    spins,      \* the Spin collection, keyed by the request that created the document
    winners,    \* the Winner collection, keyed by the request that created the document
    purchases,  \* the Purchase collection, keyed by the request that created the document
    pc,         \* per request: the storage operation it is about to issue, or how it ended
    req,        \* per request: its input (body, authenticated user)
    loc,        \* per request: the handler's local variables (documents read, accumulators)
    settings,   \* the GameSettings collection, in insertion order
    readyState, \* mongoose.connection.readyState
    countdownInterval,  \* how many interval timers of index.js are armed
    emitted,    \* per emitter: what its last run sent (socket events, the winner email)
    wheelEntryDocs  \* the WheelEntry collection: per creator, how many of its documents exist

vars == <<users, codes, store, spins, winners, purchases, pc, req, loc,
          settings, readyState, countdownInterval, emitted, wheelEntryDocs>>

Terminal == {"done", "rejected", "failed"}

\* ------------------------------------------------------------- documents
\* models/User.js: the schema defaults of a freshly registered account.
NewUser(role) ==
    [role |-> role, blocked |-> FALSE, totalEntries |-> RegistrationEntries,
     totalShirtsPurchased |-> 0, isWinner |-> FALSE, lastWinDate |-> FALSE,
     congratsShown |-> FALSE]

\* models/PurchaseCode.js: a generated, unused code.
NewCode(entries) ==
    [isUsed |-> FALSE, usedBy |-> None, usedDate |-> FALSE, entriesAwarded |-> entries,
     expired |-> FALSE]

\* models/Store.js: a catalog item.
NewItem(entriesPerItem, stock, isShirt) ==
    [entriesPerItem |-> entriesPerItem, stock |-> stock, active |-> TRUE, isShirt |-> isShirt]

\* models/GameSettings.js: a document at its schema defaults; id names the
\* request that inserted it.
NewSettings(id) ==
    [id |-> id, countdownActive |-> FALSE, gameStartTime |-> None, gameEndTime |-> None]

\* --------------------------------------------------- the draw pool (wheel.js)
\* User.find({ role: 'user', blocked: false }).select('name instagramHandle totalEntries')
FindEligibleNoBlockedFilter(u) ==
    LET Match(id) == u[id].role = "user"
        ids == SelectSeq(AllUsers, Match)
    IN  [i \in 1..Len(ids) |-> [userId |-> ids[i], totalEntries |-> u[ids[i]].totalEntries]]

FindEligible(u) ==
    LET Match(id) == u[id].role = "user" /\ ~u[id].blocked
        ids == SelectSeq(AllUsers, Match)
    IN  [i \in 1..Len(ids) |-> [userId |-> ids[i], totalEntries |-> u[ids[i]].totalEntries]]

\* participants: the found users with totalEntries > 0, with their entry counts.
Participants(found) ==
    LET Positive(d) == d.totalEntries > 0
        ds == SelectSeq(found, Positive)
    IN  [i \in 1..Len(ds) |-> [userId |-> ds[i].userId, entryCount |-> ds[i].totalEntries]]

\* i copies of id.
Copies(id, n) == [i \in 1..n |-> id]

RECURSIVE WheelEntriesOneSlotEach(_)
WheelEntriesOneSlotEach(found) ==
    IF found = <<>> THEN <<>>
    ELSE LET d == Head(found)
         IN  (IF d.totalEntries > 0 THEN <<d.userId>> ELSE <<>>)
             \o WheelEntriesOneSlotEach(Tail(found))

\* wheelEntries: one slot per entry of every found user, in the order found.
RECURSIVE WheelEntries(_)
WheelEntries(found) ==
    IF found = <<>> THEN <<>>
    ELSE LET d == Head(found)
         IN  (IF d.totalEntries > 0 THEN Copies(d.userId, d.totalEntries) ELSE <<>>)
             \o WheelEntries(Tail(found))

\* participants.find(p => p.userId === winner.userId)?.entryCount || 1
WinnerEntryCount(parts, id) ==
    LET hit == {i \in 1..Len(parts) : parts[i].userId = id}
    IN  IF hit = {} THEN 1
        ELSE LET c == parts[CHOOSE i \in hit : \A j \in hit : i <= j].entryCount
             IN  IF c = 0 THEN 1 ELSE c

\* new Spin({..., participants, status: 'pending'})
PendingSpin(found) ==
    [status |-> "pending", participants |-> Participants(found),
     totalEntries |-> Len(WheelEntries(found)), winner |-> None,
     winnerEntryCount |-> 0, completedAt |-> FALSE, notes |-> FALSE]

CompletedSpinNoCompletedAt(doc, id) ==
    [doc EXCEPT !.winner = id,
                !.winnerEntryCount = WinnerEntryCount(doc.participants, id),
                !.status = "completed"]

\* spin.winner = {...}; spin.status = 'completed'; spin.completedAt = new Date()
CompletedSpin(doc, id) ==
    [doc EXCEPT !.winner = id,
                !.winnerEntryCount = WinnerEntryCount(doc.participants, id),
                !.status = "completed",
                !.completedAt = TRUE]

\* User.updateMany({ role: 'user' }, { totalEntries: 1, totalShirtsPurchased: 0 })
ResetLedgerToZero(u) ==
    [id \in UserIds |->
        IF u[id].role = "user"
        THEN [u[id] EXCEPT !.totalEntries = 0, !.totalShirtsPurchased = 0]
        ELSE u[id]]

ResetLedger(u) ==
    [id \in UserIds |->
        IF u[id].role = "user"
        THEN [u[id] EXCEPT !.totalEntries = RegistrationEntries, !.totalShirtsPurchased = 0]
        ELSE u[id]]

\* ------------------------------------------------- the interval timers (index.js)
\* countdownInterval counts the armed interval timers; the handle of the code
\* names the last one armed and is set exactly while one is armed.
\* if (countdownInterval) clearInterval(countdownInterval)
ClearInterval(n) == IF n > 0 THEN n - 1 ELSE 0

StartCountdownUpdatesNoClear(n) == n + 1

\* startCountdownUpdates(): the armed timer is cleared, then setInterval arms one.
StartCountdownUpdates(n) == ClearInterval(n) + 1

\* ------------------------------------------------------------------- Init
\* The store items created at start-up: a shirt and a piece of merchandise,
\* with small stocks.
DefaultItems ==
    [i \in ItemIds |-> IF i = "shirt" THEN NewItem(2, 2, TRUE) ELSE NewItem(1, 2, FALSE)]

Init ==
    /\ users = [id \in UserIds |-> NewUser(IF id = "admin" THEN "super_admin" ELSE "user")]
    /\ codes = [c \in CodeIds |-> NewCode(IF c = "c1" THEN 1 ELSE 2)]
    /\ store = DefaultItems
    /\ spins = [p \in SpinReqs |-> NoSpin]
    /\ winners = [p \in SpinReqs |-> NoWinner]
    /\ purchases = [p \in PurchaseProcs |-> NoPurchase]
    /\ pc = [p \in Procs |-> "start"]
    /\ req = [p \in Procs |-> None]
    /\ loc = [p \in Procs |-> NoLocals]
    /\ settings = <<NewSettings("boot")>>
    /\ readyState = "connected"
    /\ countdownInterval = StartCountdownUpdates(0)
    /\ emitted = [p \in Emitters |-> {}]
    /\ wheelEntryDocs = [k \in Registrations \cup GrantProcs |->
                            IF k \in Registrations THEN 1 ELSE 0]

\* The ledgers a draw or a reset can begin with: each account of ids a player
\* or an operator, blocked or not, with 0..MaxWeight entries, the entries above
\* the registration entry bought with a shirt, a past winner or not; the other
\* accounts as in Init.
Ledgers(ids) ==
    {u \in [UserIds -> [role : {"user", "super_admin"}, blocked : BOOLEAN,
                        totalEntries : 0..MaxWeight, totalShirtsPurchased : {0, 1},
                        isWinner : BOOLEAN, lastWinDate : BOOLEAN,
                        congratsShown : {FALSE}]] :
        \A id \in UserIds :
           IF id \in ids
           THEN /\ u[id].totalShirtsPurchased = (IF u[id].totalEntries > 1 THEN 1 ELSE 0)
                /\ u[id].lastWinDate = u[id].isWinner
                /\ u[id].isWinner => (u[id].role = "user" /\ u[id].totalEntries = 1)
           ELSE u[id] = NewUser(IF id = "admin" THEN "super_admin" ELSE "user")}

\* The rest of the state is as in Init.
InitOver(ledgers) ==
    /\ users \in ledgers
    /\ codes = [c \in CodeIds |-> NewCode(IF c = "c1" THEN 1 ELSE 2)]
    /\ store = DefaultItems
    /\ spins = [p \in SpinReqs |-> NoSpin]
    /\ winners = [p \in SpinReqs |-> NoWinner]
    /\ purchases = [p \in PurchaseProcs |-> NoPurchase]
    /\ pc = [p \in Procs |-> "start"]
    /\ req = [p \in Procs |-> None]
    /\ loc = [p \in Procs |-> NoLocals]
    /\ settings = <<NewSettings("boot")>>
    /\ readyState = "connected"
    /\ countdownInterval = StartCountdownUpdates(0)
    /\ emitted = [p \in Emitters |-> {}]
    /\ wheelEntryDocs = [k \in Registrations \cup GrantProcs |->
                            IF k \in Registrations THEN 1 ELSE 0]

\* The accounts that carry weight in a draw over ledger u: role 'user', not
\* blocked, totalEntries > 0.
EligibleWithEntries(u) ==
    {id \in UserIds : u[id].role = "user" /\ ~u[id].blocked /\ u[id].totalEntries > 0}

\* The weight of each of them: the ledger as a draw over u sees it.
PoolOf(u) == [id \in EligibleWithEntries(u) |-> u[id].totalEntries]

\* ------------------------------------------------ POST /wheel/spin (wheel.js)
SpinFindNoEmptyCheck(p) ==
    /\ pc[p] = "start"
    /\ pc' = [pc EXCEPT ![p] = "savePending"]
    /\ loc' = [loc EXCEPT ![p] = [found |-> FindEligible(users),
                                  poolRead |-> PoolOf(users)]]
    /\ UNCHANGED <<users, codes, store, spins, winners, purchases, req, settings, readyState, countdownInterval, emitted, wheelEntryDocs>>

\* User.find, then the synchronous pool construction and the two 400 answers.
\* poolRead remembers the weights of the ledger that was read.
SpinFind(p) ==
    /\ pc[p] = "start"
    /\ LET found == FindEligible(users)
       IN  IF Len(found) = 0 \/ Len(WheelEntries(found)) = 0
           THEN /\ pc' = [pc EXCEPT ![p] = "rejected"]
                /\ UNCHANGED loc
           ELSE /\ pc' = [pc EXCEPT ![p] = "savePending"]
                /\ loc' = [loc EXCEPT ![p] = [found |-> found,
                                              poolRead |-> PoolOf(users)]]
    /\ UNCHANGED <<users, codes, store, spins, winners, purchases, req, settings, readyState, countdownInterval, emitted, wheelEntryDocs>>

SpinSavePendingResetsLedger(p) ==
    /\ pc[p] = "savePending"
    /\ spins' = [spins EXCEPT ![p] = PendingSpin(loc[p].found)]
    /\ users' = ResetLedger(users)
    /\ pc' = [pc EXCEPT ![p] = "saveCompleted"]
    /\ UNCHANGED <<codes, store, winners, purchases, req, loc, settings, readyState,
                   countdownInterval, emitted, wheelEntryDocs>>

\* The first spin.save(): the Spin document is inserted with status 'pending'.
SpinSavePending(p) ==
    /\ pc[p] = "savePending"
    /\ spins' = [spins EXCEPT ![p] = PendingSpin(loc[p].found)]
    /\ pc' = [pc EXCEPT ![p] = "saveCompleted"]
    /\ UNCHANGED <<users, codes, store, winners, purchases, req, loc, settings, readyState, countdownInterval, emitted, wheelEntryDocs>>

\* Math.random picks a slot; the second spin.save() updates the document by _id.
\* An update that matches no document makes save() throw (DocumentNotFoundError).
SpinSaveCompleted(p) ==
    /\ pc[p] = "saveCompleted"
    /\ \E r \in 1..Len(WheelEntries(loc[p].found)) :
         LET id == WheelEntries(loc[p].found)[r]
         IN  IF spins[p] = NoSpin
             THEN /\ pc' = [pc EXCEPT ![p] = "failed"]
                  /\ loc' = [loc EXCEPT ![p] = NoLocals]
                  /\ UNCHANGED spins
             ELSE /\ spins' = [spins EXCEPT ![p] = CompletedSpin(spins[p], id)]
                  /\ loc' = [loc EXCEPT ![p] = [found |-> loc[p].found,
                                                poolRead |-> loc[p].poolRead,
                                                winner |-> id]]
                  /\ pc' = [pc EXCEPT ![p] = "createWinner"]
    /\ UNCHANGED <<users, codes, store, winners, purchases, req, settings, readyState, countdownInterval, emitted, wheelEntryDocs>>

\* winnerRecord.save()
SpinCreateWinner(p) ==
    /\ pc[p] = "createWinner"
    /\ winners' = [winners EXCEPT ![p] = [userId |-> loc[p].winner, spinId |-> p]]
    /\ pc' = [pc EXCEPT ![p] = "markWinner"]
    /\ UNCHANGED <<users, codes, store, spins, purchases, req, loc, settings, readyState, countdownInterval, emitted, wheelEntryDocs>>

SpinMarkWinnerKeepsCongrats(p) ==
    /\ pc[p] = "markWinner"
    /\ users' = [users EXCEPT ![loc[p].winner] = [@ EXCEPT !.isWinner = TRUE, !.lastWinDate = TRUE]]
    /\ pc' = [pc EXCEPT ![p] = "resetLedger"]
    /\ UNCHANGED <<codes, store, spins, winners, purchases, req, loc, settings, readyState, countdownInterval, emitted, wheelEntryDocs>>

\* User.findByIdAndUpdate(winner.userId, { isWinner: true, lastWinDate, congratsShown: false })
SpinMarkWinner(p) ==
    /\ pc[p] = "markWinner"
    /\ users' = [users EXCEPT ![loc[p].winner] =
                    [@ EXCEPT !.isWinner = TRUE, !.lastWinDate = TRUE, !.congratsShown = FALSE]]
    /\ pc' = [pc EXCEPT ![p] = "resetLedger"]
    /\ UNCHANGED <<codes, store, spins, winners, purchases, req, loc, settings, readyState, countdownInterval, emitted, wheelEntryDocs>>

\* User.updateMany({ role: 'user' }, { totalEntries: 1, totalShirtsPurchased: 0 })
SpinResetLedger(p) ==
    /\ pc[p] = "resetLedger"
    /\ users' = ResetLedger(users)
    /\ pc' = [pc EXCEPT ![p] = "clearEntries"]
    /\ UNCHANGED <<codes, store, spins, winners, purchases, req, loc, settings, readyState, countdownInterval, emitted, wheelEntryDocs>>

\* The WheelEntry collection without its 'shirt_purchase' documents.
WithoutShirtPurchases(docs) ==
    [k \in DOMAIN docs |-> IF k \in GrantProcs THEN 0 ELSE docs[k]]

\* WheelEntry.deleteMany({ entryType: 'shirt_purchase' })
SpinClearEntries(p) ==
    /\ pc[p] = "clearEntries"
    /\ wheelEntryDocs' = WithoutShirtPurchases(wheelEntryDocs)
    /\ pc' = [pc EXCEPT ![p] = "notify"]
    /\ UNCHANGED <<users, codes, store, spins, winners, purchases, req, loc, settings,
                   readyState, countdownInterval, emitted>>

SpinNotifyEmailFatal(p) ==
    /\ pc[p] = "notify"
    /\ \E sent \in BOOLEAN :
         IF sent
         THEN /\ emitted' = [emitted EXCEPT ![p] = {"winner-email", "spin-completed"}]
              /\ pc' = [pc EXCEPT ![p] = "done"]
         ELSE /\ pc' = [pc EXCEPT ![p] = "failed"]
              /\ UNCHANGED emitted
    /\ loc' = [loc EXCEPT ![p] = NoLocals]
    /\ UNCHANGED <<users, codes, store, spins, winners, purchases, req, settings, readyState,
                   countdownInterval, wheelEntryDocs>>

\* User.findById and sendWinnerEmail inside their own try: the email is sent, or
\* the error is caught and logged.  Then the 'spin-completed' broadcast to the
\* wheel room and the success response.
SpinNotify(p) ==
    /\ pc[p] = "notify"
    /\ \E sent \in BOOLEAN :
         emitted' = [emitted EXCEPT ![p] =
                        (IF sent THEN {"winner-email"} ELSE {}) \cup {"spin-completed"}]
    /\ pc' = [pc EXCEPT ![p] = "done"]
    /\ loc' = [loc EXCEPT ![p] = NoLocals]
    /\ UNCHANGED <<users, codes, store, spins, winners, purchases, req, settings, readyState,
                   countdownInterval, wheelEntryDocs>>

\* The storage operations of the try block that are not caught on their own.
SpinAwaits == {"start", "savePending", "saveCompleted", "createWinner", "markWinner",
               "resetLedger", "clearEntries"}

\* One of them throws: catch (err) answers 500 and undoes nothing.
SpinFail(p) ==
    /\ pc[p] \in SpinAwaits
    /\ pc' = [pc EXCEPT ![p] = "failed"]
    /\ loc' = [loc EXCEPT ![p] = NoLocals]
    /\ UNCHANGED <<users, codes, store, spins, winners, purchases, req, settings, readyState, countdownInterval, emitted, wheelEntryDocs>>

SpinStep(p) ==
    \/ SpinFind(p)
    \/ SpinSavePending(p)
    \/ SpinSaveCompleted(p)
    \/ SpinCreateWinner(p)
    \/ SpinMarkWinner(p)
    \/ SpinResetLedger(p)
    \/ SpinClearEntries(p)
    \/ SpinNotify(p)
    \/ SpinFail(p)

\* ------------------------------------------------- operator requests (admin.js)
\* PATCH /admin/users/:userId/entries: one findByIdAndUpdate.
SetEntries(id, n) ==
    /\ n >= 0
    /\ users[id].totalEntries # n
    /\ users' = [users EXCEPT ![id].totalEntries = n]
    /\ UNCHANGED <<codes, store, spins, winners, purchases, pc, req, loc, settings, readyState, countdownInterval, emitted, wheelEntryDocs>>

\* PATCH /admin/users/:userId/block: the operator cannot block their own account.
SetBlocked(id, b) ==
    /\ id # "admin"
    /\ users[id].blocked # b
    /\ users' = [users EXCEPT ![id].blocked = b]
    /\ UNCHANGED <<codes, store, spins, winners, purchases, pc, req, loc, settings, readyState, countdownInterval, emitted, wheelEntryDocs>>

\* ------------------------------------------- POST /admin/declare-winner (admin.js)
\* new Spin({..., status: 'completed', completedAt: new Date(), notes: notes || '...'})
DeclaredSpin(id) ==
    [status |-> "completed", participants |-> <<[userId |-> id, entryCount |-> 1]>>,
     totalEntries |-> 1, winner |-> id, winnerEntryCount |-> 1, completedAt |-> TRUE,
     notes |-> TRUE]

\* User.findById(userId): 404 when there is no such account.
DeclareFind(p) ==
    /\ pc[p] = "start"
    /\ \E id \in UserIds \cup {"nobody"} :
         /\ req' = [req EXCEPT ![p] = id]
         /\ pc' = [pc EXCEPT ![p] = IF id \in UserIds THEN "saveSpin" ELSE "rejected"]
    /\ UNCHANGED <<users, codes, store, spins, winners, purchases, loc, settings, readyState, countdownInterval, emitted, wheelEntryDocs>>

\* spin.save(): the Spin is inserted already completed.
DeclareSaveSpin(p) ==
    /\ pc[p] = "saveSpin"
    /\ spins' = [spins EXCEPT ![p] = DeclaredSpin(req[p])]
    /\ pc' = [pc EXCEPT ![p] = "saveWinner"]
    /\ UNCHANGED <<users, codes, store, winners, purchases, req, loc, settings, readyState, countdownInterval, emitted, wheelEntryDocs>>

\* winner.save()
DeclareSaveWinner(p) ==
    /\ pc[p] = "saveWinner"
    /\ winners' = [winners EXCEPT ![p] = [userId |-> req[p], spinId |-> p]]
    /\ pc' = [pc EXCEPT ![p] = "saveUser"]
    /\ UNCHANGED <<users, codes, store, spins, purchases, req, loc, settings, readyState, countdownInterval, emitted, wheelEntryDocs>>

\* user.isWinner = true; user.lastWinDate = new Date(); user.save() writes the
\* two modified paths; then the 'winner-declared' broadcast and the response.
DeclareSaveUser(p) ==
    /\ pc[p] = "saveUser"
    /\ users' = [users EXCEPT ![req[p]] = [@ EXCEPT !.isWinner = TRUE, !.lastWinDate = TRUE]]
    /\ pc' = [pc EXCEPT ![p] = "done"]
    /\ UNCHANGED <<codes, store, spins, winners, purchases, req, loc, settings, readyState, countdownInterval, emitted, wheelEntryDocs>>

DeclareAwaits == {"start", "saveSpin", "saveWinner", "saveUser"}

\* catch (err): 500, nothing undone.
DeclareFail(p) ==
    /\ pc[p] \in DeclareAwaits
    /\ pc' = [pc EXCEPT ![p] = "failed"]
    /\ UNCHANGED <<users, codes, store, spins, winners, purchases, req, loc, settings, readyState, countdownInterval, emitted, wheelEntryDocs>>

DeclareStep(p) ==
    \/ DeclareFind(p)
    \/ DeclareSaveSpin(p)
    \/ DeclareSaveWinner(p)
    \/ DeclareSaveUser(p)
    \/ DeclareFail(p)

\* ------------------------------------------------ POST /admin/reset-game (admin.js)
ResetGameUsersKeepsShirts(u) ==
    [id \in UserIds |->
        IF u[id].role = "user"
        THEN [u[id] EXCEPT !.totalEntries = RegistrationEntries,
                           !.isWinner = FALSE, !.lastWinDate = FALSE]
        ELSE u[id]]

\* User.updateMany({ role: 'user' }, { totalEntries: 1, totalShirtsPurchased: 0,
\*                                     isWinner: false, lastWinDate: null })
ResetGameUsers(u) ==
    [id \in UserIds |->
        IF u[id].role = "user"
        THEN [u[id] EXCEPT !.totalEntries = RegistrationEntries, !.totalShirtsPurchased = 0,
                           !.isWinner = FALSE, !.lastWinDate = FALSE]
        ELSE u[id]]

ResetUsers(p) ==
    /\ pc[p] = "start"
    /\ users' = ResetGameUsers(users)
    /\ pc' = [pc EXCEPT ![p] = "clearEntries"]
    /\ UNCHANGED <<codes, store, spins, winners, purchases, req, loc, settings, readyState, countdownInterval, emitted, wheelEntryDocs>>

\* WheelEntry.deleteMany({ entryType: 'shirt_purchase' })
ResetClearEntries(p) ==
    /\ pc[p] = "clearEntries"
    /\ wheelEntryDocs' = WithoutShirtPurchases(wheelEntryDocs)
    /\ pc' = [pc EXCEPT ![p] = "deleteSpins"]
    /\ UNCHANGED <<users, codes, store, spins, winners, purchases, req, loc, settings,
                   readyState, countdownInterval, emitted>>

ResetDeleteSpinsPendingOnly(p) ==
    /\ pc[p] = "deleteSpins"
    /\ spins' = [i \in SpinReqs |-> IF spins[i] # NoSpin /\ spins[i].status = "completed"
                                    THEN spins[i] ELSE NoSpin]
    /\ pc' = [pc EXCEPT ![p] = "deleteWinners"]
    /\ UNCHANGED <<users, codes, store, winners, purchases, req, loc, settings, readyState, countdownInterval, emitted, wheelEntryDocs>>

\* Spin.deleteMany({})
ResetDeleteSpins(p) ==
    /\ pc[p] = "deleteSpins"
    /\ spins' = [i \in SpinReqs |-> NoSpin]
    /\ pc' = [pc EXCEPT ![p] = "deleteWinners"]
    /\ UNCHANGED <<users, codes, store, winners, purchases, req, loc, settings, readyState, countdownInterval, emitted, wheelEntryDocs>>

\* Winner.deleteMany({})
ResetDeleteWinners(p) ==
    /\ pc[p] = "deleteWinners"
    /\ winners' = [i \in SpinReqs |-> NoWinner]
    /\ pc' = [pc EXCEPT ![p] = "deleteSettings"]
    /\ UNCHANGED <<users, codes, store, spins, purchases, req, loc, settings, readyState, countdownInterval, emitted, wheelEntryDocs>>

\* GameSettings.deleteMany({}), then the response.
ResetDeleteSettings(p) ==
    /\ pc[p] = "deleteSettings"
    /\ settings' = <<>>
    /\ pc' = [pc EXCEPT ![p] = "done"]
    /\ UNCHANGED <<users, codes, store, spins, winners, purchases, req, loc, readyState,
                   countdownInterval, emitted, wheelEntryDocs>>

ResetAwaits == {"start", "clearEntries", "deleteSpins", "deleteWinners", "deleteSettings"}

\* catch (err): 500, nothing undone.
ResetFail(p) ==
    /\ pc[p] \in ResetAwaits
    /\ pc' = [pc EXCEPT ![p] = "failed"]
    /\ UNCHANGED <<users, codes, store, spins, winners, purchases, req, loc, settings, readyState, countdownInterval, emitted, wheelEntryDocs>>

ResetStep(p) ==
    \/ ResetUsers(p)
    \/ ResetClearEntries(p)
    \/ ResetDeleteSpins(p)
    \/ ResetDeleteWinners(p)
    \/ ResetDeleteSettings(p)
    \/ ResetFail(p)

\* PUT /store/admin/items/:itemId with a body that sets entriesPerItem: one
\* findByIdAndUpdate; the schema puts no bound on the number.
UpdateItem(item, e) ==
    /\ store[item].entriesPerItem # e
    /\ store' = [store EXCEPT ![item].entriesPerItem = e]
    /\ UNCHANGED <<users, codes, spins, winners, purchases, pc, req, loc, settings, readyState,
                   countdownInterval, emitted, wheelEntryDocs>>

\* POST /wheel/mark-congrats-shown: User.findByIdAndUpdate(req.user.id, { congratsShown: true })
MarkCongratsShown(id) ==
    /\ ~users[id].congratsShown
    /\ users' = [users EXCEPT ![id].congratsShown = TRUE]
    /\ UNCHANGED <<codes, store, spins, winners, purchases, pc, req, loc, settings, readyState, countdownInterval, emitted, wheelEntryDocs>>

\* ------------------------------------- POST /purchase-codes/verify (purchaseCode.js)
\* const entriesAwarded = purchaseCode.entriesAwarded || 10
EntriesAwarded(doc) ==
    IF doc.entriesAwarded = 0 THEN DefaultEntriesAwarded ELSE doc.entriesAwarded

\* expiresAt defaults to one year after creation; the clock passes it.
CodeExpires(c) ==
    /\ ~codes[c].expired
    /\ codes' = [codes EXCEPT ![c].expired = TRUE]
    /\ UNCHANGED <<users, store, spins, winners, purchases, pc, req, loc, settings, readyState, countdownInterval, emitted, wheelEntryDocs>>

VerifyFindCodeNoUsedCheck(p) ==
    /\ pc[p] = "start"
    /\ \E c \in CodeIds \cup {"bogus"}, u \in Participant :
         /\ req' = [req EXCEPT ![p] = [code |-> c, user |-> u]]
         /\ IF c \notin CodeIds
            THEN /\ pc' = [pc EXCEPT ![p] = "rejected"]
                 /\ loc' = [loc EXCEPT ![p] = [error |-> "Invalid purchase code"]]
            ELSE IF codes[c].expired
            THEN /\ pc' = [pc EXCEPT ![p] = "rejected"]
                 /\ loc' = [loc EXCEPT ![p] = [error |-> "Code expired"]]
            ELSE /\ pc' = [pc EXCEPT ![p] = "findUser"]
                 /\ loc' = [loc EXCEPT ![p] = [awarded |-> EntriesAwarded(codes[c])]]
    /\ UNCHANGED <<users, codes, store, spins, winners, purchases, settings, readyState, countdownInterval, emitted, wheelEntryDocs>>

VerifyFindCodeNoExpiryCheck(p) ==
    /\ pc[p] = "start"
    /\ \E c \in CodeIds \cup {"bogus"}, u \in Participant :
         /\ req' = [req EXCEPT ![p] = [code |-> c, user |-> u]]
         /\ IF c \notin CodeIds
            THEN /\ pc' = [pc EXCEPT ![p] = "rejected"]
                 /\ loc' = [loc EXCEPT ![p] = [error |-> "Invalid purchase code"]]
            ELSE IF codes[c].isUsed
            THEN /\ pc' = [pc EXCEPT ![p] = "rejected"]
                 /\ loc' = [loc EXCEPT ![p] = [error |-> "Code already used"]]
            ELSE /\ pc' = [pc EXCEPT ![p] = "findUser"]
                 /\ loc' = [loc EXCEPT ![p] = [awarded |-> EntriesAwarded(codes[c])]]
    /\ UNCHANGED <<users, codes, store, spins, winners, purchases, settings, readyState, countdownInterval, emitted, wheelEntryDocs>>

\* PurchaseCode.findOne({ code }) and the three checks on the document read:
\* 404 for no such code, 400 for a used code, 400 for an expired code.
VerifyFindCode(p) ==
    /\ pc[p] = "start"
    /\ \E c \in CodeIds \cup {"bogus"}, u \in Participant :
         /\ req' = [req EXCEPT ![p] = [code |-> c, user |-> u]]
         /\ IF c \notin CodeIds
            THEN /\ pc' = [pc EXCEPT ![p] = "rejected"]
                 /\ loc' = [loc EXCEPT ![p] = [error |-> "Invalid purchase code"]]
            ELSE IF codes[c].isUsed
            THEN /\ pc' = [pc EXCEPT ![p] = "rejected"]
                 /\ loc' = [loc EXCEPT ![p] = [error |-> "Code already used"]]
            ELSE IF codes[c].expired
            THEN /\ pc' = [pc EXCEPT ![p] = "rejected"]
                 /\ loc' = [loc EXCEPT ![p] = [error |-> "Code expired"]]
            ELSE /\ pc' = [pc EXCEPT ![p] = "findUser"]
                 /\ loc' = [loc EXCEPT ![p] = [awarded |-> EntriesAwarded(codes[c])]]
    /\ UNCHANGED <<users, codes, store, spins, winners, purchases, settings, readyState, countdownInterval, emitted, wheelEntryDocs>>

\* User.findById(req.user.id): the handler keeps the document it read.
VerifyFindUser(p) ==
    /\ pc[p] = "findUser"
    /\ loc' = [loc EXCEPT ![p] = [awarded |-> loc[p].awarded,
                                  totalEntries |-> users[req[p].user].totalEntries,
                                  totalShirtsPurchased |-> users[req[p].user].totalShirtsPurchased]]
    /\ pc' = [pc EXCEPT ![p] = "saveCode"]
    /\ UNCHANGED <<users, codes, store, spins, winners, purchases, req, settings, readyState, countdownInterval, emitted, wheelEntryDocs>>

\* purchaseCode.save(): an update by _id that sets isUsed, usedBy and usedDate.
VerifySaveCode(p) ==
    /\ pc[p] = "saveCode"
    /\ codes' = [codes EXCEPT ![req[p].code] = [@ EXCEPT !.isUsed = TRUE, !.usedBy = req[p].user,
                                                           !.usedDate = TRUE]]
    /\ pc' = [pc EXCEPT ![p] = "saveUser"]
    /\ UNCHANGED <<users, store, spins, winners, purchases, req, loc, settings, readyState, countdownInterval, emitted, wheelEntryDocs>>

\* user.totalEntries += entriesAwarded; user.totalShirtsPurchased += 1;
\* user.save() sets the modified paths to the values computed from the document read.
VerifySaveUser(p) ==
    /\ pc[p] = "saveUser"
    /\ users' = [users EXCEPT ![req[p].user] =
                    [@ EXCEPT !.totalEntries = loc[p].totalEntries + loc[p].awarded,
                              !.totalShirtsPurchased = loc[p].totalShirtsPurchased + 1]]
    /\ pc' = [pc EXCEPT ![p] = "saveEntry"]
    /\ UNCHANGED <<codes, store, spins, winners, purchases, req, loc, settings, readyState, countdownInterval, emitted, wheelEntryDocs>>

\* wheelEntry.save(), then the success response.
VerifySaveEntry(p) ==
    /\ pc[p] = "saveEntry"
    /\ wheelEntryDocs' = [wheelEntryDocs EXCEPT ![p] = 1]
    /\ pc' = [pc EXCEPT ![p] = "done"]
    /\ loc' = [loc EXCEPT ![p] = [awarded |-> loc[p].awarded]]
    /\ UNCHANGED <<users, codes, store, spins, winners, purchases, req, settings, readyState,
                   countdownInterval, emitted>>

VerifyAwaits == {"start", "findUser", "saveCode", "saveUser", "saveEntry"}

\* catch (err): 500, nothing undone.  A request that fails at its first read
\* had a body like any other.
VerifyFail(p) ==
    /\ pc[p] \in VerifyAwaits
    /\ pc' = [pc EXCEPT ![p] = "failed"]
    /\ IF pc[p] = "start"
       THEN \E c \in CodeIds, u \in Participant : req' = [req EXCEPT ![p] = [code |-> c, user |-> u]]
       ELSE UNCHANGED req
    /\ loc' = [loc EXCEPT ![p] = NoLocals]
    /\ UNCHANGED <<users, codes, store, spins, winners, purchases, settings, readyState, countdownInterval, emitted, wheelEntryDocs>>

VerifyStep(p) ==
    \/ VerifyFindCode(p)
    \/ VerifyFindUser(p)
    \/ VerifySaveCode(p)
    \/ VerifySaveUser(p)
    \/ VerifySaveEntry(p)
    \/ VerifyFail(p)

\* ------------------------------------------------- POST /store/purchase (store.js)
\* The quantities a request names for an item: none, negative, or 1..MaxQuantity.
QuantityChoices == (0 - 1)..MaxQuantity

PurchaseNextItemNoQuantityCheck(p, u, l, item, q) ==
    /\ req' = [req EXCEPT ![p] =
                  [user |-> u,
                   items |-> Append(IF pc[p] = "start" THEN <<>> ELSE req[p].items,
                                    [itemId |-> item, quantity |-> q])]]
    /\ IF item = None
       THEN /\ pc' = [pc EXCEPT ![p] = "rejected"]
            /\ loc' = [loc EXCEPT ![p] = [l EXCEPT !.error = "Invalid item data"]]
       ELSE /\ pc' = [pc EXCEPT ![p] = "findItem"]
            /\ loc' = [loc EXCEPT ![p] = [l EXCEPT !.item = item, !.quantity = q]]

\* The top of the loop body for the next item of the request body: a missing
\* item id or a missing or non-positive quantity ends the request with 400
\* before any read.  req[p].items is the part of the body the loop has taken up.
PurchaseNextItem(p, u, l, item, q) ==
    /\ req' = [req EXCEPT ![p] =
                  [user |-> u,
                   items |-> Append(IF pc[p] = "start" THEN <<>> ELSE req[p].items,
                                    [itemId |-> item, quantity |-> q])]]
    /\ IF item = None \/ q <= 0
       THEN /\ pc' = [pc EXCEPT ![p] = "rejected"]
            /\ loc' = [loc EXCEPT ![p] = [l EXCEPT !.error = "Invalid item data"]]
       ELSE /\ pc' = [pc EXCEPT ![p] = "findItem"]
            /\ loc' = [loc EXCEPT ![p] = [l EXCEPT !.item = item, !.quantity = q]]

\* User.findById(req.user.id), then the first item of the request.
PurchaseFindUser(p) ==
    /\ pc[p] = "start"
    /\ \E u \in Participant, item \in ItemIds \cup {"bogus", None}, q \in QuantityChoices :
         PurchaseNextItem(p, u, [totalEntries |-> users[u].totalEntries,
                                 totalShirtsPurchased |-> users[u].totalShirtsPurchased,
                                 earned |-> 0, shirts |-> 0, items |-> 0,
                                 item |-> None, quantity |-> 0, stock |-> 0,
                                 error |-> None], item, q)
    /\ UNCHANGED <<users, codes, store, spins, winners, purchases, settings, readyState,
                   countdownInterval, emitted, wheelEntryDocs>>

\* Store.findById(itemId): 404 for no such or an inactive item, 400 for too
\* little stock; else the item is added up and its new stock computed.
PurchaseFindItem(p) ==
    /\ pc[p] = "findItem"
    /\ LET l == loc[p]
       IN  IF l.item \notin ItemIds \/ ~store[l.item].active
           THEN /\ pc' = [pc EXCEPT ![p] = "rejected"]
                /\ loc' = [loc EXCEPT ![p].error = "Store item not found or inactive"]
           ELSE IF store[l.item].stock < l.quantity
           THEN /\ pc' = [pc EXCEPT ![p] = "rejected"]
                /\ loc' = [loc EXCEPT ![p].error = "Insufficient stock"]
           ELSE /\ pc' = [pc EXCEPT ![p] = "saveItem"]
                /\ loc' = [loc EXCEPT ![p] =
                      [l EXCEPT !.earned = @ + store[l.item].entriesPerItem * l.quantity,
                                !.shirts = @ + (IF store[l.item].isShirt THEN l.quantity ELSE 0),
                                !.items = @ + 1,
                                !.stock = store[l.item].stock - l.quantity]]
    /\ UNCHANGED <<users, codes, store, spins, winners, purchases, req, settings, readyState,
                   countdownInterval, emitted, wheelEntryDocs>>

\* storeItem.save() writes the stock computed from the document read; then the
\* loop goes on with the next item of the request, or ends.
PurchaseSaveItem(p) ==
    /\ pc[p] = "saveItem"
    /\ store' = [store EXCEPT ![loc[p].item].stock = loc[p].stock]
    /\ \/ /\ loc[p].items < MaxItems
          /\ \E item \in ItemIds \cup {"bogus", None}, q \in QuantityChoices :
                PurchaseNextItem(p, req[p].user, loc[p], item, q)
       \/ /\ pc' = [pc EXCEPT ![p] = "savePurchase"]
          /\ loc' = [loc EXCEPT ![p] = [loc[p] EXCEPT !.item = None, !.quantity = 0, !.stock = 0]]
          /\ UNCHANGED req
    /\ UNCHANGED <<users, codes, spins, winners, purchases, settings, readyState,
                   countdownInterval, emitted, wheelEntryDocs>>

\* purchase.save()
PurchaseSavePurchase(p) ==
    /\ pc[p] = "savePurchase"
    /\ purchases' = [purchases EXCEPT ![p] =
                        [userId |-> req[p].user, totalEntriesEarned |-> loc[p].earned]]
    /\ pc' = [pc EXCEPT ![p] = "saveUser"]
    /\ UNCHANGED <<users, codes, store, spins, winners, req, loc, settings, readyState, countdownInterval, emitted, wheelEntryDocs>>

\* user.totalEntries += totalEntriesEarned; user.totalShirtsPurchased += shirts;
\* user.save() sets each path whose value changed to the value computed from the
\* document read.
PurchaseSaveUser(p) ==
    /\ pc[p] = "saveUser"
    /\ LET l == loc[p]
       IN  users' = [users EXCEPT ![req[p].user] =
                [@ EXCEPT !.totalEntries = IF l.earned = 0 THEN @ ELSE l.totalEntries + l.earned,
                          !.totalShirtsPurchased =
                              IF l.shirts = 0 THEN @ ELSE l.totalShirtsPurchased + l.shirts]]
    /\ pc' = [pc EXCEPT ![p] = "createEntries"]
    /\ UNCHANGED <<codes, store, spins, winners, purchases, req, loc, settings, readyState, countdownInterval, emitted, wheelEntryDocs>>

\* WheelEntry.create for every entry earned, then the success response.
PurchaseCreateEntries(p) ==
    /\ pc[p] = "createEntries"
    /\ wheelEntryDocs' = [wheelEntryDocs EXCEPT ![p] = IF loc[p].earned > 0 THEN loc[p].earned ELSE 0]
    /\ pc' = [pc EXCEPT ![p] = "done"]
    /\ loc' = [loc EXCEPT ![p] = [awarded |-> loc[p].earned]]
    /\ UNCHANGED <<users, codes, store, spins, winners, purchases, req, settings, readyState,
                   countdownInterval, emitted>>

PurchaseAwaits == {"start", "findItem", "saveItem", "savePurchase", "saveUser", "createEntries"}

\* catch (err): 500, nothing undone.
PurchaseFail(p) ==
    /\ pc[p] \in PurchaseAwaits
    /\ pc' = [pc EXCEPT ![p] = "failed"]
    /\ IF pc[p] = "start"
       THEN \E u \in Participant : req' = [req EXCEPT ![p] = [user |-> u, items |-> <<>>]]
       ELSE UNCHANGED req
    /\ loc' = [loc EXCEPT ![p] = NoLocals]
    /\ UNCHANGED <<users, codes, store, spins, winners, purchases, settings, readyState, countdownInterval, emitted, wheelEntryDocs>>

PurchaseStep(p) ==
    \/ PurchaseFindUser(p)
    \/ PurchaseFindItem(p)
    \/ PurchaseSaveItem(p)
    \/ PurchaseSavePurchase(p)
    \/ PurchaseSaveUser(p)
    \/ PurchaseCreateEntries(p)
    \/ PurchaseFail(p)

\* --------------------------------------------- GET /wheel/game-settings (wheel.js)
\* GameSettings.findOne(): the first document of the collection, if any.
GetSettingsFind(p) ==
    /\ pc[p] = "start"
    /\ pc' = [pc EXCEPT ![p] = IF settings = <<>> THEN "save" ELSE "done"]
    /\ UNCHANGED <<users, codes, store, spins, winners, purchases, req, loc, settings,
                   readyState, countdownInterval, emitted, wheelEntryDocs>>

\* gameSettings = new GameSettings(); gameSettings.save() inserts a document.
GetSettingsSave(p) ==
    /\ pc[p] = "save"
    /\ settings' = Append(settings, NewSettings(p))
    /\ pc' = [pc EXCEPT ![p] = "done"]
    /\ UNCHANGED <<users, codes, store, spins, winners, purchases, req, loc, readyState,
                   countdownInterval, emitted, wheelEntryDocs>>

\* catch (err): 500, nothing undone.
GetSettingsFail(p) ==
    /\ pc[p] \in {"start", "save"}
    /\ pc' = [pc EXCEPT ![p] = "failed"]
    /\ UNCHANGED <<users, codes, store, spins, winners, purchases, req, loc, settings,
                   readyState, countdownInterval, emitted, wheelEntryDocs>>

GetSettingsStep(p) ==
    \/ GetSettingsFind(p)
    \/ GetSettingsSave(p)
    \/ GetSettingsFail(p)

\* --------------------------------------------- PUT /admin/game-settings (admin.js)
\* The position in the collection of the document with this _id, or 0.
SettingsIndex(id) ==
    IF \E i \in 1..Len(settings) : settings[i].id = id
    THEN CHOOSE i \in 1..Len(settings) : settings[i].id = id
    ELSE 0

\* GameSettings.findOne(), or a new document when there is none; the request
\* starts a countdown (startCountdown with a positive duration) or only edits
\* the prize fields.
UpdateSettingsFind(p) ==
    /\ pc[p] = "start"
    /\ \E start \in BOOLEAN : req' = [req EXCEPT ![p] = [startCountdown |-> start]]
    /\ loc' = [loc EXCEPT ![p] =
                  IF settings = <<>>
                  THEN [id |-> None, countdownActive |-> FALSE]
                  ELSE [id |-> Head(settings).id,
                        countdownActive |-> Head(settings).countdownActive]]
    /\ pc' = [pc EXCEPT ![p] = "save"]
    /\ UNCHANGED <<users, codes, store, spins, winners, purchases, settings, readyState,
                   countdownInterval, emitted, wheelEntryDocs>>

\* gameSettings.save(): an insert for a new document, else an update by _id of
\* the modified paths, which throws when the document is gone.  gameEndTime is
\* now + the duration and gameStartTime is now, the instant of this request;
\* countdownActive is modified when it was not already true.
UpdateSettingsSave(p) ==
    /\ pc[p] = "save"
    /\ LET start == req[p].startCountdown
           i == SettingsIndex(loc[p].id)
       IN  IF loc[p].id = None
           THEN /\ settings' = Append(settings,
                                      IF start
                                      THEN [id |-> p, countdownActive |-> TRUE,
                                            gameStartTime |-> p,
                                            gameEndTime |-> "future"]
                                      ELSE NewSettings(p))
                /\ pc' = [pc EXCEPT ![p] = "done"]
           ELSE IF i = 0
           THEN /\ pc' = [pc EXCEPT ![p] = "failed"]
                /\ UNCHANGED settings
           ELSE /\ settings' =
                      IF start
                      THEN [settings EXCEPT ![i] =
                              [@ EXCEPT !.gameStartTime = p,
                                        !.gameEndTime = "future",
                                        !.countdownActive =
                                            IF loc[p].countdownActive THEN @ ELSE TRUE]]
                      ELSE settings
                /\ pc' = [pc EXCEPT ![p] = "done"]
    /\ loc' = [loc EXCEPT ![p] = NoLocals]
    /\ UNCHANGED <<users, codes, store, spins, winners, purchases, req, readyState,
                   countdownInterval, emitted, wheelEntryDocs>>

\* catch (err): 500, nothing undone.
UpdateSettingsFail(p) ==
    /\ pc[p] \in {"start", "save"}
    /\ pc' = [pc EXCEPT ![p] = "failed"]
    /\ IF pc[p] = "start"
       THEN \E start \in BOOLEAN : req' = [req EXCEPT ![p] = [startCountdown |-> start]]
       ELSE UNCHANGED req
    /\ loc' = [loc EXCEPT ![p] = NoLocals]
    /\ UNCHANGED <<users, codes, store, spins, winners, purchases, settings, readyState,
                   countdownInterval, emitted, wheelEntryDocs>>

UpdateSettingsStep(p) ==
    \/ UpdateSettingsFind(p)
    \/ UpdateSettingsSave(p)
    \/ UpdateSettingsFail(p)

\* ------------------------------------------------ the countdown timer (index.js)
\* The clock reaches the gameEndTime of a document.
CountdownEnds(i) ==
    /\ i \in 1..Len(settings)
    /\ settings[i].gameEndTime = "future"
    /\ settings' = [settings EXCEPT ![i].gameEndTime = "past"]
    /\ UNCHANGED <<users, codes, store, spins, winners, purchases, pc, req, loc, readyState,
                   countdownInterval, emitted, wheelEntryDocs>>

\* The connection starts to close: readyState is 'disconnecting'.
ConnectionCloses ==
    /\ readyState = "connected"
    /\ readyState' = "disconnecting"
    /\ UNCHANGED <<users, codes, store, spins, winners, purchases, pc, req, loc, settings,
                   countdownInterval, emitted, wheelEntryDocs>>

\* mongoose.connection.on('disconnected'): clearInterval(countdownInterval).
ConnectionDisconnected ==
    /\ readyState \in {"connected", "disconnecting"}
    /\ readyState' = "disconnected"
    /\ countdownInterval' = ClearInterval(countdownInterval)
    /\ UNCHANGED <<users, codes, store, spins, winners, purchases, pc, req, loc, settings,
                   emitted, wheelEntryDocs>>

\* mongoose.connection.on('connected'), on the first connection and on every
\* later one: startCountdownUpdates() arms the timer.
ConnectionConnected ==
    /\ readyState \in {"disconnected", "connected"}
    /\ readyState' = "connected"
    /\ countdownInterval' = StartCountdownUpdates(countdownInterval)
    /\ UNCHANGED <<users, codes, store, spins, winners, purchases, pc, req, loc, settings,
                   emitted, wheelEntryDocs>>

\* gameSettings && gameSettings.countdownActive && gameSettings.gameEndTime
CountdownRunning(doc) == doc.countdownActive /\ doc.gameEndTime # None

TickFindOneNoExpiredEvent(p) ==
    /\ countdownInterval > 0
    /\ pc[p] # "save"
    /\ IF readyState # "connected"
       THEN /\ pc' = [pc EXCEPT ![p] = "skipped"]
            /\ emitted' = [emitted EXCEPT ![p] = {}]
            /\ loc' = [loc EXCEPT ![p] = NoLocals]
       ELSE IF settings # <<>> /\ CountdownRunning(Head(settings))
       THEN IF Head(settings).gameEndTime = "past"
            THEN /\ emitted' = [emitted EXCEPT ![p] = {"countdown-update"}]
                 /\ loc' = [loc EXCEPT ![p] = [id |-> Head(settings).id,
                                                gameStartTime |-> Head(settings).gameStartTime]]
                 /\ pc' = [pc EXCEPT ![p] = "save"]
            ELSE /\ emitted' = [emitted EXCEPT ![p] = {"countdown-update"}]
                 /\ loc' = [loc EXCEPT ![p] = NoLocals]
                 /\ pc' = [pc EXCEPT ![p] = "done"]
       ELSE /\ emitted' = [emitted EXCEPT ![p] = {}]
            /\ loc' = [loc EXCEPT ![p] = NoLocals]
            /\ pc' = [pc EXCEPT ![p] = "done"]
    /\ UNCHANGED <<users, codes, store, spins, winners, purchases, req, settings, readyState,
                   countdownInterval, wheelEntryDocs>>

\* The timer fires, whatever became of the run before.  Not connected: the
\* run is skipped.  Else GameSettings.findOne(); for a running countdown
\* 'countdown-update' goes to the wheel room, and when timeRemaining is 0
\* 'countdown-expired' goes to the admin room and countdownActive is to be saved.
TickFindOne(p) ==
    /\ countdownInterval > 0
    /\ pc[p] # "save"
    /\ IF readyState # "connected"
       THEN /\ pc' = [pc EXCEPT ![p] = "skipped"]
            /\ emitted' = [emitted EXCEPT ![p] = {}]
            /\ loc' = [loc EXCEPT ![p] = NoLocals]
       ELSE IF settings # <<>> /\ CountdownRunning(Head(settings))
       THEN IF Head(settings).gameEndTime = "past"
            THEN /\ emitted' = [emitted EXCEPT ![p] = {"countdown-update", "countdown-expired"}]
                 /\ loc' = [loc EXCEPT ![p] = [id |-> Head(settings).id,
                                                gameStartTime |-> Head(settings).gameStartTime]]
                 /\ pc' = [pc EXCEPT ![p] = "save"]
            ELSE /\ emitted' = [emitted EXCEPT ![p] = {"countdown-update"}]
                 /\ loc' = [loc EXCEPT ![p] = NoLocals]
                 /\ pc' = [pc EXCEPT ![p] = "done"]
       ELSE /\ emitted' = [emitted EXCEPT ![p] = {}]
            /\ loc' = [loc EXCEPT ![p] = NoLocals]
            /\ pc' = [pc EXCEPT ![p] = "done"]
    /\ UNCHANGED <<users, codes, store, spins, winners, purchases, req, settings, readyState,
                   countdownInterval, wheelEntryDocs>>

\* gameSettings.countdownActive = false; gameSettings.save() updates the
\* document by _id and throws when it is gone; the catch block logs.
TickSave(p) ==
    /\ pc[p] = "save"
    /\ LET i == SettingsIndex(loc[p].id)
       IN  IF i = 0
           THEN /\ pc' = [pc EXCEPT ![p] = "failed"]
                /\ UNCHANGED settings
           ELSE /\ settings' = [settings EXCEPT ![i].countdownActive = FALSE]
                /\ pc' = [pc EXCEPT ![p] = "done"]
    /\ loc' = [loc EXCEPT ![p] = NoLocals]
    /\ UNCHANGED <<users, codes, store, spins, winners, purchases, req, readyState,
                   countdownInterval, emitted, wheelEntryDocs>>

\* GameSettings.findOne() throws or times out: the catch block logs and the
\* run ends without an emission.
TickFindOneFails(p) ==
    /\ countdownInterval > 0
    /\ pc[p] # "save"
    /\ readyState = "connected"
    /\ pc' = [pc EXCEPT ![p] = "failed"]
    /\ emitted' = [emitted EXCEPT ![p] = {}]
    /\ loc' = [loc EXCEPT ![p] = NoLocals]
    /\ UNCHANGED <<users, codes, store, spins, winners, purchases, req, settings, readyState,
                   countdownInterval, wheelEntryDocs>>

\* gameSettings.save() throws: the catch block logs; what was emitted was emitted.
TickSaveFails(p) ==
    /\ pc[p] = "save"
    /\ pc' = [pc EXCEPT ![p] = "failed"]
    /\ loc' = [loc EXCEPT ![p] = NoLocals]
    /\ UNCHANGED <<users, codes, store, spins, winners, purchases, req, settings, readyState,
                   countdownInterval, emitted, wheelEntryDocs>>

TickStep(p) ==
    \/ TickFindOne(p)
    \/ TickSave(p)
    \/ TickFindOneFails(p)
    \/ TickSaveFails(p)

\* ------------------------------------------------------------ specifications
\* Concurrent spin requests, with operator edits of the ledger at any moment.
Next ==
    \/ \E p \in SpinProcs : SpinStep(p)
    \/ \E id \in Participant, n \in EntryChoices : SetEntries(id, n)
    \/ \E id \in Participant, b \in BOOLEAN : SetBlocked(id, b)

Spec == Init /\ [][Next]_vars

\* One spin request, one declared winner and one game reset, interleaved at
\* every await, with operator edits of the ledger.
NextLifecycle ==
    \/ \E p \in {"s1"} : SpinStep(p)
    \/ \E p \in DeclareProcs : DeclareStep(p)
    \/ \E p \in {"r1"} : ResetStep(p)
    \/ \E id \in Participant, n \in EntryChoices : SetEntries(id, n)

SpecLifecycle == Init /\ [][NextLifecycle]_vars

\* Concurrent code redemptions, interleaved at every await.
NextRedeem == \E p \in VerifyProcs : VerifyStep(p)

SpecRedeem == Init /\ [][NextRedeem]_vars

\* Concurrent code redemptions and a purchase, interleaved at every await.
CreditProcs == VerifyProcs \cup {"p1"}

NextCredit ==
    \/ \E p \in VerifyProcs : VerifyStep(p)
    \/ \E p \in {"p1"} : PurchaseStep(p)

SpecCredit == Init /\ [][NextCredit]_vars

\* No request is between two of its awaits, except possibly p.
Alone(p) == \A q \in Procs \ {p} : pc[q] \in Terminal \cup {"start"}

\* A spin request, a code redemption and operator and user edits run one after
\* the other: a request starts only when no other is in flight, and runs to
\* its response before the next one starts.
NextSeq ==
    \/ \E p \in {"s1"} : Alone(p) /\ SpinStep(p)
    \/ \E p \in {"v1"} : Alone(p) /\ VerifyStep(p)
    \/ \E id \in Participant, n \in EntryChoices : Alone(None) /\ SetEntries(id, n)
    \/ \E id \in Participant, b \in BOOLEAN : Alone(None) /\ SetBlocked(id, b)
    \/ \E id \in Participant : Alone(None) /\ MarkCongratsShown(id)

SpecSeq == Init /\ [][NextSeq]_vars

\* Code redemptions run one after the other, while codes expire and the
\* operator edits the ledger between them.
NextSeqRedeem ==
    \/ \E p \in VerifyProcs : Alone(p) /\ VerifyStep(p)
    \/ \E c \in CodeIds : Alone(None) /\ CodeExpires(c)
    \/ \E id \in Participant, n \in EntryChoices : Alone(None) /\ SetEntries(id, n)

SpecSeqRedeem == Init /\ [][NextSeqRedeem]_vars

\* A purchase, with operator edits of the catalog and the ledger before and
\* after it but not between its awaits.
NextSeqStore ==
    \/ \E p \in {"p1"} : Alone(p) /\ PurchaseStep(p)
    \/ \E item \in ItemIds, e \in EntriesPerItemChoices : Alone(None) /\ UpdateItem(item, e)
    \/ \E id \in Participant, n \in EntryChoices : Alone(None) /\ SetEntries(id, n)

SpecSeqStore == Init /\ [][NextSeqStore]_vars

\* One spin request over any ledger.
NextPool == \E p \in {"s1"} : SpinStep(p)

SpecPool == InitOver(Ledgers(UserIds)) /\ [][NextPool]_vars

\* Spin requests and game resets over any ledger, one after the other.
NextBaseline ==
    \/ \E p \in SpinProcs : Alone(p) /\ SpinStep(p)
    \/ \E p \in ResetProcs : Alone(p) /\ ResetStep(p)

SpecBaseline == InitOver(Ledgers(Participant)) /\ [][NextBaseline]_vars

\* One spin request and one code redemption over any ledger, interleaved at
\* every await.
NextSpinCredit ==
    \/ \E p \in {"s1"} : SpinStep(p)
    \/ \E p \in {"v1"} : VerifyStep(p)

SpecSpinCredit == InitOver(Ledgers(Participant)) /\ [][NextSpinCredit]_vars

\* The countdown timer, the connection events and the clock, with the requests
\* that read, create, update and delete the game settings, interleaved at every
\* await.
NextScheduler ==
    \/ \E p \in {"t1"} : TickStep(p)
    \/ ConnectionCloses
    \/ ConnectionDisconnected
    \/ ConnectionConnected
    \/ \E i \in 1..Len(settings) : CountdownEnds(i)
    \/ \E p \in GetSettingsProcs : GetSettingsStep(p)
    \/ \E p \in {"a1"} : UpdateSettingsStep(p)
    \/ \E p \in {"r1"} : ResetStep(p)

SpecScheduler == Init /\ [][NextScheduler]_vars

\* Timer callbacks that overlap, two requests that start a countdown, and the
\* clock, interleaved at every await.
NextCountdown ==
    \/ \E p \in TickProcs : TickStep(p)
    \/ \E p \in UpdateSettingsProcs : UpdateSettingsStep(p)
    \/ \E i \in 1..Len(settings) : CountdownEnds(i)

SpecCountdown == Init /\ [][NextCountdown]_vars

\* ------------------------------------------------------------------ claims
SpinCompleted(p) == spins[p].status = "completed"

\* The Spin of p is persisted as completed and p has not yet reset the ledger.
DrawnNotReset(p) ==
    SpinCompleted(p) /\ pc[p] \in {"createWinner", "markWinner", "resetLedger"}

\* C1: two concurrent POST /wheel/spin requests never both complete a Spin
\* against the same not-yet-reset ledger: no state holds two completed Spins
\* whose requests both read the pool before either reset it.
C1_OneSpinPerPool ==
    \A p, q \in SpinProcs : p # q => ~(DrawnNotReset(p) /\ DrawnNotReset(q))

ParticipantIds(doc) == {doc.participants[i].userId : i \in 1..Len(doc.participants)}

\* C3: the step that completes a Spin stores exactly one winner; the winner was
\* an unblocked role-'user' account with totalEntries > 0 in the ledger the
\* request read, and is in the Spin's participants with a positive entryCount.
C3_WinnerEligible ==
    [][\A p \in SpinProcs :
         (pc[p] = "saveCompleted" /\ pc'[p] = "createWinner") =>
            /\ spins'[p].status = "completed"
            /\ spins'[p].winner \in DOMAIN loc[p].poolRead
            /\ spins'[p].winner \in ParticipantIds(spins'[p])
            /\ spins'[p].participants = spins[p].participants
            /\ \A i \in 1..Len(spins'[p].participants) :
                  /\ spins'[p].participants[i].userId \in DOMAIN loc[p].poolRead
                  /\ spins'[p].participants[i].entryCount > 0
            /\ spins'[p].winnerEntryCount > 0]_vars

C3_Witness ==
    \E p \in SpinProcs :
        /\ SpinCompleted(p)
        /\ pc[p] = "createWinner"
        /\ Len(spins[p].participants) = 1
        /\ spins[p].winnerEntryCount = MaxSetEntries

\* C4: a spin request that reads a ledger without any unblocked role-'user'
\* account holding totalEntries > 0 ends with an error in that step and
\* changes no user, Spin or Winner; a rejected request never owns a Spin or Winner.
C4_EmptyPoolRejected ==
    /\ [](\A p \in SpinProcs :
            pc[p] = "rejected" => spins[p] = NoSpin /\ winners[p] = NoWinner)
    /\ [][\A p \in SpinProcs :
            (pc[p] = "start" /\ pc'[p] # "start" /\ EligibleWithEntries(users) = {}) =>
               /\ pc'[p] \in {"rejected", "failed"}
               /\ UNCHANGED <<users, spins, winners>>]_vars

C4_Witness ==
    \E p \in SpinProcs :
        /\ pc[p] = "rejected"
        /\ EligibleWithEntries(users) = {}
        /\ \E id \in Participant : ~users[id].blocked

\* C8: a spin request that fails before its Spin is persisted as completed
\* leaves no Spin document of its own, and the failing step changes no Winner
\* and no user.
C8_CleanAbort ==
    [][\A p \in SpinProcs :
         (pc[p] \in {"start", "savePending", "saveCompleted"} /\ pc'[p] = "failed") =>
            /\ spins'[p] = NoSpin
            /\ UNCHANGED <<users, winners>>]_vars

\* C6: a completed Spin has its winner and completedAt set, whether POST
\* /wheel/spin or POST /admin/declare-winner created it, and no step changes a
\* completed Spin; only Spin.deleteMany of a game reset removes it.
C6_CompletedSpinImmutable ==
    /\ [](\A i \in SpinReqs :
            SpinCompleted(i) => spins[i].winner \in UserIds /\ spins[i].completedAt)
    /\ [][\A i \in SpinReqs :
            SpinCompleted(i) =>
               \/ spins'[i] = spins[i]
               \/ /\ spins'[i] = NoSpin
                  /\ \E r \in ResetProcs : pc[r] = "deleteSpins" /\ pc'[r] = "deleteWinners"]_vars

C6_Witness ==
    /\ SpinCompleted("s1") /\ pc["s1"] = "done"
    /\ \E d \in DeclareProcs : SpinCompleted(d) /\ pc[d] = "done"
    /\ \E r \in ResetProcs : pc[r] = "deleteSpins"

\* C2: no state holds two successful redemptions of the same code.
C2_OneRedemptionPerCode ==
    \A v, w \in VerifyProcs :
        (v # w /\ pc[v] = "done" /\ pc[w] = "done") => req[v].code # req[w].code

\* C9: when two credits for the same account (a purchase, redemptions of
\* distinct codes) have both succeeded and no other request has acted, the
\* account holds its registration entry plus both amounts.
C9_NoLostCredit ==
    \A p, q \in CreditProcs :
        (/\ p # q
         /\ pc[p] = "done" /\ pc[q] = "done"
         /\ req[p].user = req[q].user
         /\ (p \in VerifyProcs /\ q \in VerifyProcs) => req[p].code # req[q].code
         /\ \A r \in CreditProcs \ {p, q} : pc[r] = "start")
        => users[req[p].user].totalEntries
              = RegistrationEntries + loc[p].awarded + loc[q].awarded

\* C10: when a redemption attempt has ended, by its response or by a storage
\* failure, and no other request has acted, its code is marked used exactly
\* when the redeemer holds the registration entry plus the code's entries.
C10_NoPartialRedemption ==
    \A p \in VerifyProcs :
        (/\ pc[p] \in Terminal
         /\ req[p].code \in CodeIds
         /\ \A q \in VerifyProcs \ {p} : pc[q] = "start")
        => (codes[req[p].code].isUsed
              <=> users[req[p].user].totalEntries
                     = RegistrationEntries + EntriesAwarded(codes[req[p].code]))

\* C5: when a spin request answers and nothing ran between its awaits, every
\* role-'user' account has totalEntries 1 and totalShirtsPurchased 0, and the
\* Spin's participants are the accounts that carried weight in the ledger the
\* request read, each with the entry count read.
C5_ResetKeepsSnapshot ==
    [][\A p \in SpinProcs :
         (pc[p] = "notify" /\ pc'[p] = "done") =>
            /\ \A id \in UserIds :
                  users'[id].role = "user" =>
                     /\ users'[id].totalEntries = 1
                     /\ users'[id].totalShirtsPurchased = 0
            /\ ParticipantIds(spins'[p]) = DOMAIN loc[p].poolRead
            /\ \A i \in 1..Len(spins'[p].participants) :
                  spins'[p].participants[i].entryCount
                     = loc[p].poolRead[spins'[p].participants[i].userId]]_vars

C5_Witness ==
    \E p \in SpinProcs :
        /\ pc[p] = "done"
        /\ SpinCompleted(p)
        /\ \E i \in 1..Len(spins[p].participants) : spins[p].participants[i].entryCount > 2
        /\ \A id \in Participant : users[id].totalEntries = 1

WinnersOf(w, i) == {r \in SpinReqs : w[r] # NoWinner /\ w[r].spinId = i}

\* C7: when a spin request that selected W answers and nothing ran between its
\* awaits, its Spin names W, exactly one Winner references that Spin and names
\* W, and W has isWinner true, lastWinDate set, congratsShown false and
\* totalEntries 1.
C7_WinnerRecorded ==
    [][\A p \in SpinProcs :
         (pc[p] = "notify" /\ pc'[p] = "done") =>
            LET W == loc[p].winner
            IN  /\ spins'[p].status = "completed"
                /\ spins'[p].winner = W
                /\ Cardinality(WinnersOf(winners', p)) = 1
                /\ \A r \in WinnersOf(winners', p) : winners'[r].userId = W
                /\ users'[W].isWinner
                /\ users'[W].lastWinDate
                /\ ~users'[W].congratsShown
                /\ users'[W].totalEntries = 1]_vars

C7_Witness ==
    \E p \in SpinProcs :
        /\ pc[p] = "done"
        /\ SpinCompleted(p)
        /\ spins[p].winnerEntryCount > 2
        /\ users[spins[p].winner].isWinner
        /\ users[spins[p].winner].totalEntries = 1
        /\ \E id \in Participant : id # spins[p].winner /\ users[id].congratsShown

\* C11: when the same code is redeemed twice in sequence, the first attempt
\* adds the code's entriesAwarded to the redeemer's totalEntries in one step and
\* changes no other account; an attempt on a code already marked used is
\* answered 'Code already used' and changes no user and no field of any code.
C11_SecondRedemptionRejected ==
    [][\A p \in VerifyProcs :
         /\ (pc[p] = "saveUser" /\ pc'[p] = "saveEntry") =>
               /\ codes[req[p].code].isUsed /\ codes[req[p].code].usedBy = req[p].user
               /\ users'[req[p].user].totalEntries
                     = users[req[p].user].totalEntries + EntriesAwarded(codes[req[p].code])
               /\ \A id \in UserIds \ {req[p].user} : users'[id] = users[id]
         /\ (/\ pc[p] = "start" /\ pc'[p] \notin {"start", "failed"}
             /\ req'[p].code \in CodeIds
             /\ codes[req'[p].code].isUsed) =>
               /\ pc'[p] = "rejected"
               /\ loc'[p].error = "Code already used"
               /\ UNCHANGED <<users, codes>>]_vars

C11_Witness ==
    /\ pc["v1"] = "done" /\ pc["v2"] = "rejected"
    /\ req["v1"] = req["v2"]
    /\ loc["v2"].error = "Code already used"
    /\ codes[req["v1"].code].usedBy = req["v1"].user
    /\ users[req["v1"].user].totalEntries
          = RegistrationEntries + EntriesAwarded(codes[req["v1"].code])

\* C12: a redemption attempt on a code that is expired and not used is answered
\* 'Code expired' and changes no user and no code; an expired code is never
\* marked used afterwards.
C12_ExpiredCodeRejected ==
    [][/\ \A p \in VerifyProcs :
            (/\ pc[p] = "start" /\ pc'[p] \notin {"start", "failed"}
             /\ req'[p].code \in CodeIds
             /\ codes[req'[p].code].expired /\ ~codes[req'[p].code].isUsed) =>
               /\ pc'[p] = "rejected"
               /\ loc'[p].error = "Code expired"
               /\ UNCHANGED <<users, codes>>
       /\ \A c \in CodeIds :
            (codes[c].expired /\ ~codes[c].isUsed) => ~codes'[c].isUsed]_vars

C12_Witness ==
    \E p \in VerifyProcs :
        /\ pc[p] = "rejected"
        /\ loc[p].error = "Code expired"
        /\ ~codes[req[p].code].isUsed
        /\ \A q \in VerifyProcs \ {p} : pc[q] = "start"
        /\ users[req[p].user].totalEntries = MaxSetEntries

\* The timer callback p takes a step.
TickActs(p) == pc'[p] # pc[p] \/ emitted'[p] # emitted[p]

\* C13: a run of the timer callback that reads a running countdown whose
\* gameEndTime has passed emits 'countdown-expired' and goes on to save; the
\* save that succeeds leaves countdownActive false on that document; no step of
\* the callback changes a user, a Spin or a Winner.
C13_ExpiryIsAdvisory ==
    [][\A p \in TickProcs :
         /\ TickActs(p) => UNCHANGED <<users, spins, winners>>
         /\ (/\ TickActs(p) /\ pc[p] # "save" /\ pc'[p] # "failed"
             /\ readyState = "connected"
             /\ settings # <<>>
             /\ CountdownRunning(Head(settings))
             /\ Head(settings).gameEndTime = "past") =>
               /\ "countdown-expired" \in emitted'[p]
               /\ pc'[p] = "save"
         /\ (pc[p] = "save" /\ pc'[p] = "done") =>
               /\ SettingsIndex(loc[p].id) # 0
               /\ ~settings'[SettingsIndex(loc[p].id)].countdownActive]_vars

C13_Witness ==
    \E p \in TickProcs :
        /\ pc[p] = "done"
        /\ "countdown-expired" \in emitted[p]
        /\ settings # <<>>
        /\ Head(settings).gameEndTime = "past"
        /\ ~Head(settings).countdownActive

\* C14: a run of the timer callback that is skipped for want of a connection, or
\* ends in a failed read or write of the settings, has emitted nothing, and its
\* last step changed no document.
C14_FailedTickSilent ==
    [][\A p \in TickProcs :
         (TickActs(p) /\ pc'[p] \in {"failed", "skipped"}) =>
            /\ emitted'[p] = {}
            /\ UNCHANGED <<users, spins, winners, settings>>]_vars

\* C15: when the winner email of a spin is not sent, the request still answers
\* with success in that step, the 'spin-completed' broadcast is emitted, and
\* the completed Spin, the Winner, and every user (the winner's flags, the
\* reset ledger) stay as they were.
C15_EmailBestEffort ==
    [][\A p \in SpinProcs :
         (pc[p] = "notify" /\ pc'[p] # "notify" /\ "winner-email" \notin emitted'[p]) =>
            /\ pc'[p] = "done"
            /\ "spin-completed" \in emitted'[p]
            /\ spins'[p].status = "completed"
            /\ winners'[p] # NoWinner
            /\ UNCHANGED <<users, spins, winners>>]_vars

C15_Witness ==
    \E p \in SpinProcs :
        /\ pc[p] = "done"
        /\ emitted[p] = {"spin-completed"}
        /\ SpinCompleted(p)
        /\ winners[p].userId = spins[p].winner
        /\ users[spins[p].winner].isWinner
        /\ \A id \in Participant : users[id].totalEntries = 1

\* C17: the GameSettings collection never holds more than one document.
C17_SettingsSingleton == Len(settings) <= 1

\* C16: no account ever has a negative totalEntries.
C16_EntriesNonNegative == \A id \in UserIds : users[id].totalEntries >= 0

\* The entries and the shirts of the items of a request body at the catalog st.
RECURSIVE SumEntries(_, _)
SumEntries(items, st) ==
    IF items = <<>> THEN 0
    ELSE Head(items).quantity * st[Head(items).itemId].entriesPerItem
            + SumEntries(Tail(items), st)

RECURSIVE SumShirts(_, _)
SumShirts(items, st) ==
    IF items = <<>> THEN 0
    ELSE (IF st[Head(items).itemId].isShirt THEN Head(items).quantity ELSE 0)
            + SumShirts(Tail(items), st)

\* The step of purchase p that saves the buyer.
PurchaseCredits(p) == pc[p] = "saveUser" /\ pc'[p] = "createEntries"

\* C18 as stated: the step that saves the buyer of a purchase raises
\* totalShirtsPurchased.
C18_PurchaseCountGrows ==
    [][\A p \in PurchaseProcs :
         PurchaseCredits(p) =>
            users'[req[p].user].totalShirtsPurchased
               > users[req[p].user].totalShirtsPurchased]_vars

\* C18, amended: when nothing runs between the awaits of a purchase, the step
\* that saves the buyer adds the sum of quantity * entriesPerItem over the items
\* of the request to totalEntries and the quantities of the items named
\* '...shirt...' to totalShirtsPurchased, every item having a quantity > 0; a
\* request whose next item has no id, or a missing or non-positive quantity,
\* is rejected in that step, which changes no user and no Purchase.
C18_PurchaseArithmetic ==
    [][\A p \in PurchaseProcs :
         /\ PurchaseCredits(p) =>
               /\ \A i \in 1..Len(req[p].items) : req[p].items[i].quantity > 0
               /\ users'[req[p].user].totalEntries
                     = users[req[p].user].totalEntries + SumEntries(req[p].items, store)
               /\ users'[req[p].user].totalShirtsPurchased
                     = users[req[p].user].totalShirtsPurchased + SumShirts(req[p].items, store)
               /\ purchases[p].totalEntriesEarned = SumEntries(req[p].items, store)
         /\ (/\ pc'[p] \notin {"start", "failed"}
             /\ pc[p] = "start" \/ Len(req'[p].items) > Len(req[p].items)
             /\ req'[p].items[Len(req'[p].items)].quantity <= 0) =>
               /\ pc'[p] = "rejected"
               /\ UNCHANGED <<users, purchases>>]_vars

C18_Witness ==
    \E p \in PurchaseProcs :
        /\ pc[p] = "done"
        /\ Len(req[p].items) = MaxItems
        /\ \E i, j \in 1..Len(req[p].items) :
              /\ store[req[p].items[i].itemId].isShirt
              /\ ~store[req[p].items[j].itemId].isShirt
        /\ SumEntries(req[p].items, store) > 1
        /\ users[req[p].user].totalEntries
              = RegistrationEntries + SumEntries(req[p].items, store)
        /\ users[req[p].user].totalShirtsPurchased = SumShirts(req[p].items, store)

\* The weight of a found account in the draw.
Weight(d) == IF d.totalEntries > 0 THEN d.totalEntries ELSE 0

RECURSIVE TotalWeight(_)
TotalWeight(found) ==
    IF found = <<>> THEN 0 ELSE Weight(Head(found)) + TotalWeight(Tail(found))

\* Cumulative-weight selection: the first account, in the order found, whose
\* cumulative weight exceeds r.
RECURSIVE CumulativePick(_, _)
CumulativePick(found, r) ==
    IF r < Weight(Head(found)) THEN Head(found).userId
    ELSE CumulativePick(Tail(found), r - Weight(Head(found)))

\* C19: for the accounts a spin request found, with weights summing to W > 0,
\* the pool has W slots, slot r holds the account cumulative-weight selection
\* picks for r, for every r in 0..W-1, each account fills as many slots as its
\* weight, and the winner drawn is the pick of one such r.
C19_PoolIsCumulativeWeight ==
    \A p \in SpinProcs :
        pc[p] \in {"savePending", "saveCompleted", "createWinner"} =>
            LET found == loc[p].found
                pool == WheelEntries(found)
                W == TotalWeight(found)
            IN  /\ W > 0
                /\ Len(pool) = W
                /\ \A r \in 0..(W - 1) : pool[r + 1] = CumulativePick(found, r)
                /\ \A i \in 1..Len(found) :
                      Cardinality({r \in 0..(W - 1) : pool[r + 1] = found[i].userId})
                         = Weight(found[i])
                /\ pc[p] = "createWinner" =>
                      \E r \in 0..(W - 1) : loc[p].winner = CumulativePick(found, r)

C19_Witness ==
    \E p \in SpinProcs :
        /\ pc[p] = "createWinner"
        /\ Len(loc[p].found) = Len(AllUsers)
        /\ loc[p].found[1].totalEntries = MaxWeight
        /\ loc[p].found[2].totalEntries = 0
        /\ loc[p].found[3].totalEntries > 1
        /\ loc[p].winner = loc[p].found[3].userId

\* Every role-'user' account is at totalEntries 1 and totalShirtsPurchased 0.
Baseline(u) ==
    \A id \in UserIds :
        u[id].role = "user" => u[id].totalEntries = 1 /\ u[id].totalShirtsPurchased = 0

\* C20: the bulk update of a spin and that of POST /admin/reset-game each leave
\* every role-'user' account at totalEntries 1 and totalShirtsPurchased 0, and
\* applied again to their own result they change nothing: a reset that follows
\* a reset leaves the ledger as it found it.
C20_ResetIdempotent ==
    [][/\ \A p \in SpinProcs :
            (pc[p] = "resetLedger" /\ pc'[p] = "clearEntries") =>
               /\ Baseline(users')
               /\ ResetLedger(users') = users'
               /\ Baseline(users) => users' = users
       /\ \A r \in ResetProcs :
            (pc[r] = "start" /\ pc'[r] = "clearEntries") =>
               /\ Baseline(users')
               /\ ResetGameUsers(users') = users'
               /\ ResetLedger(users') = users'
               /\ Baseline(users) =>
                     \A id \in UserIds :
                        /\ users'[id].totalEntries = users[id].totalEntries
                        /\ users'[id].totalShirtsPurchased = users[id].totalShirtsPurchased]_vars

C20_Witness ==
    /\ pc["r1"] = "done" /\ pc["r2"] = "clearEntries"
    /\ pc["s1"] = "done" /\ pc["s2"] = "done"
    /\ Baseline(users)
    /\ \E id \in Participant : users[id].role = "user" /\ users[id].blocked

\* C21: when a spin and a redemption of a code worth a by a role-'user'
\* account u have both answered with success, u has totalEntries 1 or 1 + a.
C21_RetiredEntriesStayRetired ==
    \A s \in SpinProcs, v \in VerifyProcs :
        (/\ pc[s] = "done" /\ pc[v] = "done"
         /\ users[req[v].user].role = "user") =>
            users[req[v].user].totalEntries \in {1, 1 + loc[v].awarded}

\* A step of request p changes the entries or the shirts of some account.
LedgerChangedBy(p) ==
    /\ pc'[p] # pc[p]
    /\ \E id \in UserIds :
          \/ users'[id].totalEntries # users[id].totalEntries
          \/ users'[id].totalShirtsPurchased # users[id].totalShirtsPurchased

\* C22: with no game reset running, a spin request creates its Winner only
\* when its Spin is persisted as completed with that winner, marks an account
\* only when that Winner exists, resets the ledger only when the Spin is
\* completed, the Winner exists and the winner is marked, and notifies only
\* after that; a request past its ledger reset has a completed Spin.
C22_StepOrder ==
    /\ [](\A p \in SpinProcs :
            pc[p] \in {"clearEntries", "notify", "done"} =>
               SpinCompleted(p) /\ winners[p] # NoWinner)
    /\ [][\A p \in SpinProcs :
            /\ winners'[p] # winners[p] =>
                  SpinCompleted(p) /\ winners'[p].userId = spins[p].winner
            /\ (pc'[p] # pc[p] /\ \E id \in UserIds : users'[id].isWinner /\ ~users[id].isWinner) =>
                  /\ SpinCompleted(p) /\ winners[p] # NoWinner
                  /\ users'[winners[p].userId].isWinner
            /\ LedgerChangedBy(p) =>
                  /\ SpinCompleted(p)
                  /\ winners[p] # NoWinner /\ winners[p].userId = spins[p].winner
                  /\ users[spins[p].winner].isWinner
                  /\ users' = ResetLedger(users)
            /\ emitted'[p] # emitted[p] =>
                  /\ pc[p] = "notify"
                  /\ SpinCompleted(p) /\ winners[p] # NoWinner
                  /\ users[spins[p].winner].isWinner]_vars

C22_Witness ==
    \E p \in SpinProcs :
        /\ pc[p] = "notify"
        /\ SpinCompleted(p)
        /\ spins[p].winnerEntryCount = MaxSetEntries
        /\ winners[p].userId = spins[p].winner
        /\ users[spins[p].winner].isWinner
        /\ users[spins[p].winner].totalEntries = 1

\* C23: a step that changes or removes WheelEntry documents that exist is the
\* WheelEntry.deleteMany of a game reset; every other step leaves them in place.
C23_WheelEntriesAppendOnly ==
    [][\A k \in DOMAIN wheelEntryDocs :
         (wheelEntryDocs[k] > 0 /\ wheelEntryDocs'[k] # wheelEntryDocs[k]) =>
            \E r \in ResetProcs : pc[r] = "clearEntries" /\ pc'[r] = "deleteSpins"]_vars

\* C24: a purchase request that is rejected changes no state: no user's
\* totalEntries changes, no Purchase record is created and no store item's
\* stock changes, even when the rejected item comes after valid items.
C24_RejectedPurchaseChangesNothing ==
    \A p \in PurchaseProcs :
        pc[p] = "rejected" =>
            /\ purchases[p] = NoPurchase
            /\ \A u \in UserIds : users[u].totalEntries \in EntryChoices \cup {RegistrationEntries}
            /\ \A i \in ItemIds : store[i].stock = DefaultItems[i].stock

\* C25: a Spin or a Winner record disappears only on the Spin.deleteMany or the
\* Winner.deleteMany step of POST /admin/reset-game; and when a game reset,
\* run with nothing interleaved, answers, no Spin and no Winner record exists,
\* every role-'user' account has totalEntries 1, totalShirtsPurchased 0 and
\* isWinner false, and the accounts are the ones there were.
C25_ResetGameClears ==
    [][/\ \A k \in SpinReqs :
            (spins[k] # NoSpin /\ spins'[k] = NoSpin) =>
                \E r \in ResetProcs : pc[r] = "deleteSpins" /\ pc'[r] = "deleteWinners"
       /\ \A k \in SpinReqs :
            (winners[k] # NoWinner /\ winners'[k] = NoWinner) =>
                \E r \in ResetProcs : pc[r] = "deleteWinners" /\ pc'[r] = "deleteSettings"
       /\ \A r \in ResetProcs :
            (pc[r] = "deleteSettings" /\ pc'[r] = "done") =>
                /\ \A k \in SpinReqs : spins'[k] = NoSpin /\ winners'[k] = NoWinner
                /\ Baseline(users')
                /\ \A id \in UserIds : users'[id].role = "user" => ~users'[id].isWinner
                /\ DOMAIN users' = UserIds
                /\ \A id \in UserIds : users'[id].role = users[id].role]_vars

C25_Witness ==
    /\ pc["s1"] = "done" /\ pc["r1"] = "done" /\ pc["s2"] = "start"
    /\ \A k \in SpinReqs : spins[k] = NoSpin /\ winners[k] = NoWinner
    /\ Baseline(users)
    /\ \E id \in Participant : users[id].role = "user" /\ users[id].blocked

\* C26: in every state each Winner record's spinId names an existing Spin
\* with status 'completed' whose winner is the Winner's userId.
C26_WinnerRefersToCompletedSpin ==
    \A k \in SpinReqs :
        winners[k] # NoWinner =>
            /\ spins[winners[k].spinId] # NoSpin
            /\ spins[winners[k].spinId].status = "completed"
            /\ spins[winners[k].spinId].winner = winners[k].userId

\* C29: whatever 'connected' and 'disconnected' events have come, at most one
\* interval timer is armed, one is armed while the connection is connected, and
\* none is armed while it is disconnected.
C29_OneTickLoop ==
    /\ countdownInterval <= 1
    /\ readyState = "connected" => countdownInterval = 1
    /\ readyState = "disconnected" => countdownInterval = 0

C29_Witness ==
    /\ readyState = "connected"
    /\ countdownInterval = 1
    /\ pc["t1"] = "skipped"

\* C28: a run of the timer callback with the connection up whose read succeeds
\* emits exactly 'countdown-update' when it reads a running countdown whose
\* gameEndTime is still ahead, and exactly 'countdown-expired' when it reads
\* one whose gameEndTime has passed.
C28_TickEmitsOneEvent ==
    [][\A p \in TickProcs :
         (/\ TickActs(p) /\ pc[p] # "save" /\ pc'[p] \notin {"failed", "skipped"}
          /\ settings # <<>>
          /\ CountdownRunning(Head(settings))) =>
            IF Head(settings).gameEndTime = "past"
            THEN emitted'[p] = {"countdown-expired"}
            ELSE emitted'[p] = {"countdown-update"}]_vars

\* A countdown was started on document i and its gameEndTime is still ahead.
CountdownAhead(docs, i) ==
    docs[i].gameStartTime # None /\ docs[i].gameEndTime = "future"

\* C27: a started countdown whose gameEndTime is still ahead is active after
\* every step and stays active over the save of a timer callback, whatever
\* countdown that callback had read.
C27_StartedCountdownStaysActive ==
    [][\A i \in 1..Len(settings') :
         CountdownAhead(settings', i) =>
            /\ (\E p \in TickProcs : pc[p] = "save" /\ pc'[p] = "done") =>
                    settings'[i].countdownActive
            /\ (\E p \in UpdateSettingsProcs : pc[p] = "save" /\ pc'[p] = "done") =>
                    settings'[i].countdownActive]_vars

\* C30: no two runs of the timer callback are both past the 'countdown-expired'
\* emission for the same countdown.
C30_ExpiredOncePerCountdown ==
    \A p, q \in TickProcs :
        (p # q /\ pc[p] = "save" /\ pc[q] = "save") =>
            \/ loc[p].id # loc[q].id
            \/ loc[p].gameStartTime # loc[q].gameStartTime
====
